---- MODULE Spec2Model ----
(***************************************************************************)
(* mmi2grpc proxies (android/pandora/mmi2grpc/mmi2grpc): the SM, SDP,      *)
(* L2CAP and OPP profile proxies that turn PTS MMI prompts into remote     *)
(* calls on the device under test.                                         *)
(*                                                                         *)
(* One proxy serves a test run: `profile` names it.  Every MMI handler is  *)
(* one action; `ret` is what the handler invoked last gave back to the     *)
(* driver ("OK", or "RAISE" when an exception left it).                    *)
(*                                                                         *)
(* Python values: None is 0 and a connection or channel handle is a        *)
(* positive number; a str is a sequence of one-character strings; bytes    *)
(* are a sequence of numbers 0..255.                                       *)
(***************************************************************************)
EXTENDS Integers, Sequences, FiniteSets, TLC

VARIABLES
    profile,          \* the proxy under test: "SM", "SDP", "L2CAP", "OPP"
    ret,              \* what the handler invoked last gave back ("" before the first)
    \* ---- SMProxy (sm.py)
    sm_connection,    \* self.connection
    passkey_queue,    \* self.passkey_queue, oldest first
    task_pc,          \* position of _handle_pairing_requests.task
    task_event,       \* index in pairing_stream of the event the task handles
    task_passkey,     \* the local `passkey` of the task
    pairing_stream,   \* history: the events the stream has delivered
    answers,          \* history: the PairingEventAnswers sent on the stream
    placed,           \* history: every string put on passkey_queue, in order
    debug_log,        \* number of "No passkey provided" lines written
    secure_threads,   \* the threads started by MMI_ASK_IUT_PERFORM_PAIRING_PROCESS
    \* ---- SDPProxy (sdp.py)
    sdp_prompt,       \* the UUIDs of the next "browsable service classes" prompt
    sdp_edits,        \* how far sdp_prompt is from a reference list
    sdp_uuids,        \* uuid_list of TSC_SDP_mmi_verify_browsable_services, once run
    sdp_result,       \* what it returned ("" before)
    \* ---- L2CAPProxy (l2cap.py)
    l2_test,          \* the `test` the driver passes to every handler
    l2_connection,    \* self.connection
    l2_pairing_events,\* self.pairing_events
    l2_channel,       \* self.channel
    l2_advertise,     \* whether self.advertise is set
    test_status_map,  \* L2CAPProxy.test_status_map, the class attribute
    l2_proxies,       \* history: how many L2CAPProxy objects were made
    l2_recorded,      \* history: whether this proxy wrote to test_status_map
    l2_sent,          \* history: the bytes of the last Send that went through
    l2_mmi,           \* history: the handler invoked last on this proxy
    l2_calls,         \* history: the remote calls it made
    l2_prompt,        \* history: the sent_data of its prompt
    \* ---- OPPProxy (opp.py)
    opp_connection,   \* self.connection
    opp_mmi,          \* history: the handler invoked last
    opp_calls         \* history: the remote calls made so far

smVars == <<sm_connection, passkey_queue, task_pc, task_event,
            task_passkey, pairing_stream, answers, placed, debug_log,
            secure_threads>>

sdpVars == <<sdp_prompt, sdp_edits, sdp_uuids, sdp_result>>

l2Vars == <<l2_test, l2_connection, l2_pairing_events, l2_channel, l2_advertise,
            test_status_map, l2_proxies, l2_recorded, l2_sent, l2_mmi, l2_calls,
            l2_prompt>>

oppVars == <<opp_connection, opp_mmi, opp_calls>>

vars == <<profile, ret, smVars, sdpVars, l2Vars, oppVars>>

\* what the handlers of one proxy leave alone: the other proxies
notSM == <<sdpVars, l2Vars, oppVars>>

notSDP == <<smVars, l2Vars, oppVars>>

notL2CAP == <<smVars, sdpVars, oppVars>>

notOPP == <<smVars, sdpVars, l2Vars>>

None == 0

(***************************************************************************)
(* Bounds of the model.                                                    *)
(***************************************************************************)
MaxRun == 3        \* pairing events, passkey prompts and pairing threads in a run
MaxHandles == 1    \* distinct connection handles the remote stack hands out
MaxEdits == 1      \* changes made to a reference list to get the reported list
MaxProxies == 2    \* L2CAPProxy objects made one after another
MaxCalls == 2      \* remote calls of an OPPProxy
MaxOPPHandles == 2 \* distinct connection handles host.WaitConnection gives an OPPProxy

(***************************************************************************)
(* Python str and int().                                                   *)
(***************************************************************************)
Digits == <<"0", "1", "2", "3", "4", "5", "6", "7", "8", "9">>

DigitValue(c) == (CHOOSE i \in 1..10 : Digits[i] = c) - 1

\* int(s) for a str of decimal digits; int("") raises ValueError: see IntRaises
RECURSIVE int(_)
int(s) ==
    IF s = <<>> THEN 0
    ELSE 10 * int(SubSeq(s, 1, Len(s) - 1)) + DigitValue(s[Len(s)])

IntRaises(s) == s = <<>>

\* The strings the prompt pattern [0-9]* of MMI_DISPLAY_PASSKEY_CODE yields here
PasskeyStrings ==
    { <<>>,
      <<"0", "0", "0", "0", "0", "7">>,
      <<"1", "2", "3", "4", "5", "6">> }

(***************************************************************************)
(* PairingEvent: the `method` oneof.  A member reads as its value when it  *)
(* is the variant set and as its default otherwise; a message-typed member *)
(* (just_works, passkey_entry_request) is read here as true exactly when   *)
(* it is the variant set, a uint32 member as its number.                   *)
(***************************************************************************)
NumericValues == {0, 123456}

PairingEvents ==
    { [variant |-> "just_works", value |-> 0],
      [variant |-> "passkey_entry_request", value |-> 0] }
    \cup { [variant |-> "numeric_comparison", value |-> v] : v \in NumericValues }

just_works(e) == e.variant = "just_works"

numeric_comparison(e) == IF e.variant = "numeric_comparison" THEN e.value ELSE 0

passkey_entry_request(e) == e.variant = "passkey_entry_request"

\* Python truth value of an int
Truthy(n) == n # 0

ConfirmAnswer(i) ==
    [event |-> i, answer |-> "confirm", confirm |-> TRUE, passkey |-> 0,
     nth |-> 0, puts |-> 0]

\* nth: how many passkeys the task has taken off the queue, this one included;
\* puts: how many were placed on the queue so far (history, not sent)
PasskeyAnswer(i, n) ==
    [event |-> i, answer |-> "passkey", confirm |-> FALSE, passkey |-> n,
     nth |-> Len(placed) - Len(passkey_queue), puts |-> Len(placed)]

\* the run may still grow: one more event, passkey prompt or pairing thread
RunOpen == Len(pairing_stream) + Len(placed) + Len(secure_threads) < MaxRun

(***************************************************************************)
(* SMProxy.__init__                                                        *)
(***************************************************************************)
SMInit ==
    /\ sm_connection = None
    /\ passkey_queue = <<>>
    /\ task_pc = "next"          \* _handle_pairing_requests() started the task
    /\ task_event = 0
    /\ task_passkey = <<>>
    /\ pairing_stream = <<>>
    /\ answers = <<>>
    /\ placed = <<>>
    /\ debug_log = 0
    /\ secure_threads = <<>>

(***************************************************************************)
(* _handle_pairing_requests.task, one action per step of the thread.       *)
(***************************************************************************)
\* for event in pairing_events: the stream delivers the next event
TaskNextEvent(e) ==
    /\ profile = "SM"
    /\ UNCHANGED notSM
    /\ task_pc = "next"
    /\ RunOpen
    /\ pairing_stream' = Append(pairing_stream,
                                [variant |-> e.variant, value |-> e.value,
                                 gets |-> 0, timeout |-> FALSE])
    /\ task_event' = Len(pairing_stream) + 1
    /\ task_pc' = "confirm"
    /\ UNCHANGED <<profile, ret, sm_connection, passkey_queue,
                   task_passkey, answers, placed, debug_log, secure_threads>>

\* if event.just_works or event.numeric_comparison: send(confirm=True)
ConfirmCondition(e) == just_works(e) \/ Truthy(numeric_comparison(e))

TaskConfirm ==
    /\ profile = "SM"
    /\ UNCHANGED notSM
    /\ task_pc = "confirm"
    /\ answers' = IF ConfirmCondition(pairing_stream[task_event])
                  THEN Append(answers, ConfirmAnswer(task_event))
                  ELSE answers
    /\ task_pc' = IF passkey_entry_request(pairing_stream[task_event])
                  THEN "get" ELSE "next"
    /\ UNCHANGED <<profile, ret, sm_connection, passkey_queue,
                   task_event, task_passkey, pairing_stream, placed, debug_log,
                   secure_threads>>

QueueGetNewest(q) == q[Len(q)]

\* Queue.get: the item the queue gives to get()
QueueGet(q) == Head(q)

\* a get that leaves the item on the queue
QueueRestKeepsItem(q) == q

\* Queue.get: what is left on the queue
QueueRest(q) == Tail(q)

\* passkey = self.passkey_queue.get(timeout=15), an item being there in time
TaskGetPasskey ==
    /\ profile = "SM"
    /\ UNCHANGED notSM
    /\ task_pc = "get"
    /\ passkey_queue # <<>>
    /\ task_passkey' = QueueGet(passkey_queue)
    /\ passkey_queue' = QueueRest(passkey_queue)
    /\ pairing_stream' = [pairing_stream EXCEPT ![task_event].gets = @ + 1]
    /\ task_pc' = "send"
    /\ UNCHANGED <<profile, ret, sm_connection, task_event,
                   answers, placed, debug_log, secure_threads>>

AfterTimeoutRetry == "get"

\* where the task goes after `except Empty: debug(...)`
AfterTimeout == "next"

\* get(timeout=15) raises Empty: the queue stayed empty for 15 seconds
TaskGetTimeout ==
    /\ profile = "SM"
    /\ UNCHANGED notSM
    /\ task_pc = "get"
    /\ passkey_queue = <<>>
    /\ pairing_stream' = [pairing_stream EXCEPT ![task_event].gets = @ + 1,
                                                ![task_event].timeout = TRUE]
    /\ debug_log' = debug_log + 1
    /\ task_pc' = AfterTimeout
    /\ UNCHANGED <<profile, ret, sm_connection, passkey_queue,
                   task_event, task_passkey, answers, placed, secure_threads>>

\* pairing_events.send(PairingEventAnswer(event=event, passkey=int(passkey)));
\* a ValueError of int() is not an Empty: it ends the thread
TaskSendPasskey ==
    /\ profile = "SM"
    /\ UNCHANGED notSM
    /\ task_pc = "send"
    /\ IF IntRaises(task_passkey)
       THEN /\ task_pc' = "dead"
            /\ UNCHANGED answers
       ELSE /\ task_pc' = "next"
            /\ answers' = Append(answers, PasskeyAnswer(task_event, int(task_passkey)))
    /\ UNCHANGED <<profile, ret, sm_connection, passkey_queue,
                   task_event, task_passkey, pairing_stream, placed, debug_log,
                   secure_threads>>

(***************************************************************************)
(* The thread `secure` of MMI_ASK_IUT_PERFORM_PAIRING_PROCESS.  It reads   *)
(* self.connection twice: in the `if` and in the call's argument.          *)
(***************************************************************************)
SecureCheck(t) ==
    /\ profile = "SM"
    /\ UNCHANGED notSM
    /\ t \in 1..Len(secure_threads)
    /\ secure_threads[t].pc = "check"
    /\ secure_threads' =
         [secure_threads EXCEPT ![t].pc = IF sm_connection # None THEN "call" ELSE "done"]
    /\ UNCHANGED <<profile, ret, sm_connection, passkey_queue,
                   task_pc, task_event, task_passkey, pairing_stream, answers,
                   placed, debug_log>>

SecureCall(t) ==
    /\ profile = "SM"
    /\ UNCHANGED notSM
    /\ t \in 1..Len(secure_threads)
    /\ secure_threads[t].pc = "call"
    /\ secure_threads' = [secure_threads EXCEPT ![t].pc = "called",
                                                ![t].connection = sm_connection]
    /\ UNCHANGED <<profile, ret, sm_connection, passkey_queue,
                   task_pc, task_event, task_passkey, pairing_stream, answers,
                   placed, debug_log>>

(***************************************************************************)
(* SMProxy MMI handlers (the main flow).                                   *)
(***************************************************************************)
Handles == 1..MaxHandles

\* what a remote call gives: a handle, or None for a call that raised
RemoteResults == Handles \cup {None}

taskVars == <<task_pc, task_event, task_passkey, pairing_stream, answers, debug_log>>

SM_test_started ==
    /\ profile = "SM"
    /\ UNCHANGED notSM
    /\ ret' = "OK"
    /\ UNCHANGED <<profile, smVars>>

MMI_IUT_ENABLE_CONNECTION_SM(r) ==
    /\ profile = "SM"
    /\ UNCHANGED notSM
    /\ IF r = None
       THEN ret' = "RAISE" /\ UNCHANGED sm_connection
       ELSE ret' = "OK" /\ sm_connection' = r
    /\ UNCHANGED <<profile, passkey_queue, taskVars, placed, secure_threads>>

\* Thread(target=secure).start()
\* pc "called": Secure was called, `connection` its argument
NewSecureThread == [pc |-> "check", connection |-> None]

MMI_ASK_IUT_PERFORM_PAIRING_PROCESS ==
    /\ profile = "SM"
    /\ UNCHANGED notSM
    /\ RunOpen
    /\ secure_threads' = Append(secure_threads, NewSecureThread)
    /\ ret' = "OK"
    /\ UNCHANGED <<profile, sm_connection, passkey_queue, taskVars, placed>>

MMI_IUT_SEND_DISCONNECTION_REQUEST(ok) ==
    /\ profile = "SM"
    /\ UNCHANGED notSM
    /\ IF ok
       THEN ret' = "OK" /\ sm_connection' = None
       ELSE ret' = "RAISE" /\ UNCHANGED sm_connection
    /\ UNCHANGED <<profile, passkey_queue, taskVars, placed, secure_threads>>

MMI_ASK_IUT_PERFORM_RESET(ok) ==
    /\ profile = "SM"
    /\ UNCHANGED notSM
    /\ ret' = IF ok THEN "OK" ELSE "RAISE"
    /\ UNCHANGED <<profile, smVars>>

MMI_TESTER_ENABLE_CONNECTION_SM(ok) ==
    /\ profile = "SM"
    /\ UNCHANGED notSM
    /\ ret' = IF ok THEN "OK" ELSE "RAISE"    \* self.advertise is read nowhere
    /\ UNCHANGED <<profile, smVars>>

QueueFullMaxsize1(q) == Len(q) >= 1

\* Queue() has no maxsize: put() never waits for room
QueueFull(q) == FALSE

MMI_DISPLAY_PASSKEY_CODE(passkey) ==
    /\ profile = "SM"
    /\ UNCHANGED notSM
    /\ RunOpen
    /\ ~QueueFull(passkey_queue)
    /\ passkey_queue' = Append(passkey_queue, passkey)
    /\ placed' = Append(placed, passkey)
    /\ ret' = "OK"
    /\ UNCHANGED <<profile, sm_connection, taskVars, secure_threads>>

MMI_IUT_INITIATE_CONNECTION_BR_EDR_PAIRING(r) ==
    /\ profile = "SM"
    /\ UNCHANGED notSM
    /\ IF r = None
       THEN ret' = "RAISE" /\ UNCHANGED sm_connection
       ELSE ret' = "OK" /\ sm_connection' = r
    /\ UNCHANGED <<profile, passkey_queue, taskVars, placed, secure_threads>>

\* the handlers whose body is `return "OK"`
SMPlainHandlers ==
    { "MMI_LESC_NUMERIC_COMPARISON", "MMI_IUT_SMP_TIMEOUT_30_SECONDS",
      "MMI_IUT_SMP_TIMEOUT_ADDITIONAL_10_SECONDS", "MMI_ENTER_PASSKEY_CODE",
      "MMI_ENTER_WRONG_DYNAMIC_PASSKEY_CODE",
      "MMI_IUT_ABORT_PAIRING_PROCESS_DISCONNECT", "MMI_IUT_ACCEPT_CONNECTION_BR_EDR",
      "_mmi_2001", "MMI_ASK_IUT_PERFORM_FEATURE_EXCHANGE_OVER_BR",
      "MMI_IUT_INITIATES_ENCRYPTION", "_mmi_20117" }

SMPlainResult(h) == "OK"

SMPlain(h) ==
    /\ profile = "SM"
    /\ UNCHANGED notSM
    /\ ret' = SMPlainResult(h)
    /\ UNCHANGED <<profile, smVars>>

NextSM ==
    \/ \E e \in PairingEvents : TaskNextEvent(e)
    \/ TaskConfirm
    \/ TaskGetPasskey
    \/ TaskGetTimeout
    \/ TaskSendPasskey
    \/ \E t \in 1..Len(secure_threads) : SecureCheck(t)
    \/ \E t \in 1..Len(secure_threads) : SecureCall(t)
    \/ SM_test_started
    \/ \E r \in RemoteResults : MMI_IUT_ENABLE_CONNECTION_SM(r)
    \/ MMI_ASK_IUT_PERFORM_PAIRING_PROCESS
    \/ \E ok \in BOOLEAN : MMI_IUT_SEND_DISCONNECTION_REQUEST(ok)
    \/ \E ok \in BOOLEAN : MMI_ASK_IUT_PERFORM_RESET(ok)
    \/ \E ok \in BOOLEAN : MMI_TESTER_ENABLE_CONNECTION_SM(ok)
    \/ \E p \in PasskeyStrings : MMI_DISPLAY_PASSKEY_CODE(p)
    \/ \E r \in RemoteResults : MMI_IUT_INITIATE_CONNECTION_BR_EDR_PAIRING(r)
    \/ \E h \in SMPlainHandlers : SMPlain(h)

(***************************************************************************)
(* SDPProxy (sdp.py).                                                      *)
(*                                                                         *)
(* A UUID of the prompt is a str such as "0x1105"; UuidChars gives its     *)
(* characters.  int(uuid, 16) is a Python int of any size: it is kept as   *)
(* its hexadecimal digits, most significant first, without leading zeros.  *)
(***************************************************************************)
UuidChars ==
    [ t \in { "0x1105", "0x110A", "0x110C", "0x110E", "0x110F", "0x1112", "0x1115",
              "0x1116", "0x111F", "0x112F", "0x1132", "0x1203", "0x1800", "0x1801",
              "0x1855", "0xC26CF57233694CF2B5CCD2CD130F5B2C", "0x01132", "0x1234" } |->
      CASE t = "0x1105" -> <<"0", "x", "1", "1", "0", "5">>
        [] t = "0x110A" -> <<"0", "x", "1", "1", "0", "A">>
        [] t = "0x110C" -> <<"0", "x", "1", "1", "0", "C">>
        [] t = "0x110E" -> <<"0", "x", "1", "1", "0", "E">>
        [] t = "0x110F" -> <<"0", "x", "1", "1", "0", "F">>
        [] t = "0x1112" -> <<"0", "x", "1", "1", "1", "2">>
        [] t = "0x1115" -> <<"0", "x", "1", "1", "1", "5">>
        [] t = "0x1116" -> <<"0", "x", "1", "1", "1", "6">>
        [] t = "0x111F" -> <<"0", "x", "1", "1", "1", "F">>
        [] t = "0x112F" -> <<"0", "x", "1", "1", "2", "F">>
        [] t = "0x1132" -> <<"0", "x", "1", "1", "3", "2">>
        [] t = "0x1203" -> <<"0", "x", "1", "2", "0", "3">>
        [] t = "0x1800" -> <<"0", "x", "1", "8", "0", "0">>
        [] t = "0x1801" -> <<"0", "x", "1", "8", "0", "1">>
        [] t = "0x1855" -> <<"0", "x", "1", "8", "5", "5">>
        [] t = "0xC26CF57233694CF2B5CCD2CD130F5B2C" ->
             <<"0", "x", "C", "2", "6", "C", "F", "5", "7", "2", "3", "3", "6", "9",
               "4", "C", "F", "2", "B", "5", "C", "C", "D", "2", "C", "D", "1", "3",
               "0", "F", "5", "B", "2", "C">>
        [] t = "0x01132" -> <<"0", "x", "0", "1", "1", "3", "2">>
        [] t = "0x1234" -> <<"0", "x", "1", "2", "3", "4">> ]

UuidTexts == DOMAIN UuidChars

HexDigits == <<"0", "1", "2", "3", "4", "5", "6", "7", "8", "9",
               "A", "B", "C", "D", "E", "F">>

HexDigitValue(c) == (CHOOSE i \in 1..16 : HexDigits[i] = c) - 1

RECURSIVE StripZeros(_)
StripZeros(ds) ==
    IF ds # <<>> /\ Head(ds) = 0 THEN StripZeros(Tail(ds)) ELSE ds

\* int(uuid, 16), the "0x" prefix skipped
int16(uuid) ==
    LET cs == UuidChars[uuid]
    IN  StripZeros([i \in 1..(Len(cs) - 2) |-> HexDigitValue(cs[i + 2])])

UUID_TO_SERVICE_NAME ==
    { <<<<1, 1, 0, 5>>, "OBEXObjectPush">>,
      <<<<1, 1, 0, 10>>, "AudioSource">>,
      <<<<1, 1, 0, 12>>, "A/V_RemoteControlTarget">>,
      <<<<1, 1, 0, 14>>, "A/V_RemoteControl">>,
      <<<<1, 1, 0, 15>>, "A/V_RemoteControlController">>,
      <<<<1, 1, 1, 2>>, "Headset - Audio Gateway">>,
      <<<<1, 1, 1, 5>>, "PANU">>,
      <<<<1, 1, 1, 6>>, "NAP">>,
      <<<<1, 1, 1, 15>>, "HandsfreeAudioGateway">>,
      <<<<1, 1, 2, 15>>, "Phonebook Access - PSE">>,
      <<<<1, 1, 3, 2>>, "Message Access Server">>,
      <<<<1, 2, 0, 3>>, "GenericAudio">>,
      <<<<1, 8, 0, 0>>, "Generic Access">>,
      <<<<1, 8, 0, 1>>, "Generic Attribute service">>,
      <<<<1, 8, 5, 5>>, "TMAS">>,
      <<<<12, 2, 6, 12, 15, 5, 7, 2, 3, 3, 6, 9, 4, 12, 15, 2,
          11, 5, 12, 12, 13, 2, 12, 13, 1, 3, 0, 15, 5, 11, 2, 12>>,
        "Android Auto Compatibility">> }

\* UUID_TO_SERVICE_NAME.get(int(uuid, 16)), no default
ServiceNameNoDefault(uuid) ==
    LET key == int16(uuid)
        hits == { kv \in UUID_TO_SERVICE_NAME : kv[1] = key }
    IN  IF hits = {} THEN "None" ELSE (CHOOSE kv \in hits : TRUE)[2]

\* UUID_TO_SERVICE_NAME.get(int(uuid, 16), uuid)
ServiceName(uuid) ==
    LET key == int16(uuid)
        hits == { kv \in UUID_TO_SERVICE_NAME : kv[1] = key }
    IN  IF hits = {} THEN uuid ELSE (CHOOSE kv \in hits : TRUE)[2]

expected_services ==
    << "Generic Attribute service", "Generic Access", "AudioSource",
       "A/V_RemoteControlTarget", "A/V_RemoteControl", "A/V_RemoteControlController",
       "Headset - Audio Gateway", "GenericAudio", "HandsfreeAudioGateway",
       "GenericAudio", "Message Access Server", "NAP", "PANU", "TMAS",
       "Phonebook Access - PSE", "OBEXObjectPush", "Android Auto Compatibility" >>

OptionalWithoutTMAS ==
    << "Generic Attribute service", "A/V_RemoteControlController",
       "Android Auto Compatibility" >>

optional_services ==
    << "Generic Attribute service", "A/V_RemoteControlController",
       "Android Auto Compatibility", "TMAS" >>

movable_services == << "Message Access Server", "TMAS" >>

\* x in xs, for a list
In(x, xs) == \E i \in 1..Len(xs) : xs[i] = x

Count(x, xs) == Cardinality({ i \in 1..Len(xs) : xs[i] = x })

Elements(xs) == { xs[i] : i \in 1..Len(xs) }

AssertSetEqual(first, second) == Elements(first) = Elements(second)

\* unittest.TestCase.assertCountEqual passes
AssertCountEqual(first, second) ==
    \A x \in Elements(first) \cup Elements(second) : Count(x, first) = Count(x, second)

\* unittest.TestCase.assertEqual passes
AssertEqual(first, second) == first = second

\* optional_not_present = lambda service: ...
optional_not_present(service, reported_services) ==
    In(service, optional_services) /\ ~In(service, reported_services)

MovableWithoutTMAS(reported_services) == << "Message Access Server" >>

\* movable_services once the optional services not reported are removed
MovablePresent(reported_services) ==
    SelectSeq(movable_services,
              LAMBDA service : ~optional_not_present(service, reported_services))

\* list(map(lambda uuid: ..., uuid_list)), each UUID of the model translated once
ServiceNames == [uuid \in UuidTexts |-> ServiceName(uuid)]

\* the body of TSC_SDP_mmi_verify_browsable_services: "OK", or "RAISE" when an
\* assertion fails
VerifyBrowsableServices(uuid_list) ==
    LET reported_services == [i \in 1..Len(uuid_list) |-> ServiceNames[uuid_list[i]]]
        expected == SelectSeq(expected_services,
                      LAMBDA service : ~optional_not_present(service, reported_services))
        movable == MovablePresent(reported_services)
        movable_services_names_without_optional ==
            SelectSeq(reported_services, LAMBDA x : In(x, movable))
        reported_fixed == SelectSeq(reported_services, LAMBDA key : ~In(key, movable))
        expected_services_without_movable ==
            SelectSeq(expected, LAMBDA key : ~In(key, movable))
    IN  IF ~AssertCountEqual(movable_services_names_without_optional, movable)
        THEN "RAISE"
        ELSE IF ~AssertEqual(reported_fixed, expected_services_without_movable)
             THEN "RAISE"
             ELSE "OK"

(***************************************************************************)
(* The prompt's UUID list.  A run starts from the reference list of a      *)
(* device that has some of the four services that a device may lack, and   *)
(* changes it: an entry moved, dropped or added.                           *)
(***************************************************************************)
ReferenceUuids ==
    << "0x1801", "0x1800", "0x110A", "0x110C", "0x110E", "0x110F", "0x1112",
       "0x1203", "0x111F", "0x1203", "0x1132", "0x1116", "0x1115", "0x1855",
       "0x112F", "0x1105", "0xC26CF57233694CF2B5CCD2CD130F5B2C" >>

MayLack == { "0x1801", "0x110F", "0xC26CF57233694CF2B5CCD2CD130F5B2C", "0x1855" }

ReferenceList(present) ==
    SelectSeq(ReferenceUuids, LAMBDA u : u \notin MayLack \/ u \in present)

RemoveAt(xs, i) == SubSeq(xs, 1, i - 1) \o SubSeq(xs, i + 1, Len(xs))

\* x put so that it is entry j of the result
InsertAt(xs, j, x) == SubSeq(xs, 1, j - 1) \o <<x>> \o SubSeq(xs, j, Len(xs))

MoveTo(xs, i, j) == InsertAt(RemoveAt(xs, i), j, xs[i])

\* the entries the model moves: those of the services a list may lack or move
Mobile == MayLack \cup { "0x1132" }

\* the UUIDs the model adds, in front or at the end: Message Access Server
\* once more, written with a leading zero, and one that is not in the table
Added == { "0x01132", "0x1234" }

SDPIdle ==
    /\ sdp_prompt = <<>>
    /\ sdp_edits = 0
    /\ sdp_uuids = <<>>
    /\ sdp_result = ""

SDPInit ==
    /\ \E present \in SUBSET MayLack : sdp_prompt = ReferenceList(present)
    /\ sdp_edits = 0
    /\ sdp_uuids = <<>>
    /\ sdp_result = ""

SDPMove(i, j) ==
    /\ profile = "SDP"
    /\ UNCHANGED notSDP
    /\ sdp_uuids = <<>>          \* the prompt is not yet sent
    /\ sdp_edits < MaxEdits
    /\ i \in 1..Len(sdp_prompt)
    /\ j \in 1..Len(sdp_prompt)
    /\ i # j
    /\ sdp_prompt[i] \in Mobile
    /\ sdp_prompt' = MoveTo(sdp_prompt, i, j)
    /\ sdp_edits' = sdp_edits + 1
    /\ UNCHANGED <<profile, ret, sdp_uuids, sdp_result>>

SDPDrop(i) ==
    /\ profile = "SDP"
    /\ UNCHANGED notSDP
    /\ sdp_uuids = <<>>          \* the prompt is not yet sent
    /\ sdp_edits < MaxEdits
    /\ i \in 1..Len(sdp_prompt)
    /\ sdp_prompt' = RemoveAt(sdp_prompt, i)
    /\ sdp_edits' = sdp_edits + 1
    /\ UNCHANGED <<profile, ret, sdp_uuids, sdp_result>>

SDPAdd(u, j) ==
    /\ profile = "SDP"
    /\ UNCHANGED notSDP
    /\ sdp_uuids = <<>>          \* the prompt is not yet sent
    /\ sdp_edits < MaxEdits
    /\ j \in {1, Len(sdp_prompt) + 1}
    /\ sdp_prompt' = InsertAt(sdp_prompt, j, u)
    /\ sdp_edits' = sdp_edits + 1
    /\ UNCHANGED <<profile, ret, sdp_uuids, sdp_result>>

\* the prompt pattern (?:0x[0-9A-F]+, )+0x[0-9A-F]+ holds two UUIDs or more
TSC_SDP_mmi_verify_browsable_services ==
    /\ profile = "SDP"
    /\ UNCHANGED notSDP
    /\ Len(sdp_prompt) >= 2
    /\ sdp_uuids = <<>>
    /\ sdp_uuids' = sdp_prompt
    /\ sdp_result' = VerifyBrowsableServices(sdp_prompt)
    /\ ret' = sdp_result'
    /\ UNCHANGED <<profile, sdp_prompt, sdp_edits>>

\* _mmi_6000 .. _mmi_6003 return what the handler they call returns
SDPPlainHandlers ==
    { "_mmi_6000", "TSC_SDP_mmi_iut_accept_connection", "_mmi_6001",
      "TSC_SDP_mmi_iut_accept_service_attribute", "_mmi_6002",
      "TSC_SDP_mmi_iut_accept_service_search", "_mmi_6003",
      "TSC_SDP_mmi_iut_accept_service_search_attribute" }

SDPPlainResult(h) == "OK"

SDPPlain(h) ==
    /\ profile = "SDP"
    /\ UNCHANGED notSDP
    /\ ret' = SDPPlainResult(h)
    /\ UNCHANGED <<profile, sdpVars>>

NextSDP ==
    \/ \E i, j \in 1..Len(sdp_prompt) : SDPMove(i, j)
    \/ \E i \in 1..Len(sdp_prompt) : SDPDrop(i)
    \/ \E u \in Added, j \in {1, Len(sdp_prompt) + 1} : SDPAdd(u, j)
    \/ TSC_SDP_mmi_verify_browsable_services
    \/ \E h \in SDPPlainHandlers : SDPPlain(h)

(***************************************************************************)
(* L2CAPProxy (l2cap.py).                                                  *)
(*                                                                         *)
(* str.encode("utf-8"), bytes.hex() and str.upper() for the printable      *)
(* ASCII characters, which is what the payloads are made of.               *)
(***************************************************************************)
Printable ==
    << " ", "!", "\"", "#", "$", "%", "&", "'", "(", ")", "*", "+", ",", "-", ".", "/",
       "0", "1", "2", "3", "4", "5", "6", "7", "8", "9", ":", ";", "<", "=", ">", "?",
       "@", "A", "B", "C", "D", "E", "F", "G", "H", "I", "J", "K", "L", "M", "N", "O",
       "P", "Q", "R", "S", "T", "U", "V", "W", "X", "Y", "Z", "[", "\\", "]", "^", "_",
       "grave", "a", "b", "c", "d", "e", "f", "g", "h", "i", "j", "k", "l", "m", "n", "o",
       "p", "q", "r", "s", "t", "u", "v", "w", "x", "y", "z", "{", "|", "}", "~" >>

\* ord(c): Printable[1] is the space, code 32; the cell of code 96 holds
\* the name of its character, which a TLA+ string cannot hold
ord(c) == (CHOOSE i \in 1..Len(Printable) : Printable[i] = c) + 31

\* s.encode("utf-8") and bytes(s, "utf-8"): one byte per ASCII character
encode(s) == [i \in 1..Len(s) |-> ord(s[i])]

LowerHexDigits ==
    <<"0", "1", "2", "3", "4", "5", "6", "7", "8", "9", "a", "b", "c", "d", "e", "f">>

\* bytes.hex(): two lower-case digits per byte, high nibble first
hex(b) ==
    [i \in 1..(2 * Len(b)) |->
        IF i % 2 = 1 THEN LowerHexDigits[(b[(i + 1) \div 2] \div 16) + 1]
                     ELSE LowerHexDigits[(b[i \div 2] % 16) + 1]]

UpperChar(c) ==
    IF ord(c) >= ord("a") /\ ord(c) <= ord("z") THEN Printable[ord(c) - 32 - 31]
    ELSE c

\* str.upper()
upper(s) == [i \in 1..Len(s) |-> UpperChar(s[i])]

LE_DATA_PACKET_LARGE ==
    << "d", "a", "t", "a", ":", " ", "L", "E", "_", "D", "A", "T", "A", "_", "P", "A",
       "C", "K", "E", "T", "_", "L", "A", "R", "G", "E" >>

LE_DATA_PACKET1 ==
    << "d", "a", "t", "a", ":", " ", "L", "E", "_", "P", "A", "C", "K", "E", "T", "1" >>

\* the bytes literal of MMI_UPPER_TESTER_SEND_LE_DATA_PACKET4 and _CONTINUE
LE_DATA_4_FRAMES ==
    encode(
    << "t", "h", "i", "s", " ", "i", "s", " ", "a", " ", "l", "a", "r", "g", "e", " ",
       "d", "a", "t", "a", " ", "p", "a", "c", "k", "a", "g", "e", " ", "w", "i", "t",
       "h", " ", "a", "t", " ", "l", "e", "a", "s", "t", " ", "4", " ", "f", "r", "a",
       "m", "e", "s", ":", " ", "M", "M", "I", "_", "U", "P", "P", "E", "R", "_", "T",
       "E", "S", "T", "E", "R", "_", "S", "E", "N", "D", "_", "L", "E", "_", "D", "A",
       "T", "A", "_", "P", "A", "C", "K", "E", "T", "_", "L", "A", "R", "G", "E" >>)

\* bytes(self.LE_DATA_PACKET_LARGE, "utf-8")
bytes_LE_DATA_PACKET_LARGE == encode(LE_DATA_PACKET_LARGE)

\* bytes(self.LE_DATA_PACKET1, "utf-8")
bytes_LE_DATA_PACKET1 == encode(LE_DATA_PACKET1)

\* self.LE_DATA_PACKET_LARGE.encode("utf-8").hex().upper()
hex_LE_DATA_PACKET_LARGE == upper(hex(encode(LE_DATA_PACKET_LARGE)))

\* self.LE_DATA_PACKET1.encode("utf-8").hex().upper()
hex_LE_DATA_PACKET1 == upper(hex(encode(LE_DATA_PACKET1)))

\* what PTS shows for "data: LE_PACKET1" when it received it unchanged
ShownPacket1 ==
    << "6", "4", "6", "1", "7", "4", "6", "1", "3", "A", "2", "0", "4", "C", "4", "5",
       "5", "F", "5", "0", "4", "1", "4", "3", "4", "B", "4", "5", "5", "4", "3", "1" >>

\* the sent_data of a prompt, pattern [0-9A-F]*: what PTS received
SentData ==
    { <<>>, ShownPacket1, hex_LE_DATA_PACKET_LARGE, upper(hex(LE_DATA_4_FRAMES)) }

TargetToFailWithout04 ==
    { "L2CAP/LE/CFC/BV-01-C", "L2CAP/LE/CFC/BV-14-C", "L2CAP/LE/CFC/BV-16-C",
      "L2CAP/LE/CFC/BV-18-C", "L2CAP/LE/CFC/BV-19-C", "L2CAP/LE/CFC/BV-21-C" }

tests_target_to_fail ==
    { "L2CAP/LE/CFC/BV-01-C", "L2CAP/LE/CFC/BV-04-C", "L2CAP/LE/CFC/BV-14-C",
      "L2CAP/LE/CFC/BV-16-C", "L2CAP/LE/CFC/BV-18-C", "L2CAP/LE/CFC/BV-19-C",
      "L2CAP/LE/CFC/BV-21-C" }

tests_to_open_bluetooth_server_socket ==
    { "L2CAP/COS/CFC/BV-01-C", "L2CAP/COS/CFC/BV-02-C", "L2CAP/COS/CFC/BV-03-C",
      "L2CAP/COS/CFC/BV-04-C", "L2CAP/LE/CFC/BV-03-C", "L2CAP/LE/CFC/BV-06-C",
      "L2CAP/LE/CFC/BV-09-C", "L2CAP/LE/CFC/BV-20-C", "L2CAP/LE/CFC/BI-01-C" }

SkipDisconnectWithoutCED01 ==
    { "L2CAP/COS/CED/BV-04-C", "L2CAP/COS/CED/BV-09-C", "L2CAP/COS/CFD/BV-08-C",
      "L2CAP/CMC/BI-05-C", "L2CAP/CMC/BI-06-C" }

tests_to_skip_disconnect ==
    { "L2CAP/COS/CED/BV-01-C", "L2CAP/COS/CED/BV-04-C", "L2CAP/COS/CED/BV-09-C",
      "L2CAP/COS/CFD/BV-08-C", "L2CAP/CMC/BI-05-C", "L2CAP/CMC/BI-06-C" }

\* the tests run here: one or two of each list and of each branch on `test`
L2Tests ==
    { "L2CAP/LE/CFC/BV-01-C", "L2CAP/LE/CFC/BV-02-C", "L2CAP/LE/CFC/BV-03-C",
      "L2CAP/LE/CFC/BV-04-C", "L2CAP/LE/CFC/BV-10-C", "L2CAP/COS/CFC/BV-02-C",
      "L2CAP/COS/CED/BV-01-C" }

\* test_status_map, a dict: the set of its (key, value) items
HasKey(d, k) == \E item \in d : item[1] = k

GetItem(d, k) == (CHOOSE item \in d : item[1] = k)[2]

\* d = {k: v}: a new dict in place of the old one
SetItemNewDict(d, k, v) == { <<k, v>> }

\* d[k] = v
SetItem(d, k, v) == { item \in d : item[1] # k } \cup { <<k, v>> }

\* a remote call as l2_calls keeps it
Call(op, connection, channel, arg, ok) ==
    [op |-> op, connection |-> connection, channel |-> channel, arg |-> arg,
     ok |-> ok]

\* what l2cap.Connect and l2cap.WaitConnection give: a response with a channel,
\* a response with an error, or an exception
ChannelResponses ==
    { [kind |-> "channel", channel |-> h] : h \in Handles }
    \cup { [kind |-> "error", channel |-> None],
           [kind |-> "raise", channel |-> None] }

\* the object self.security.OnPairing() returns
OnPairing == 1

\* the stream is exhausted: the for loop of _mmi_2001 ends
StreamEnd == [variant |-> "end", value |-> 0]

L2Idle ==
    /\ l2_test = ""
    /\ l2_connection = None
    /\ l2_pairing_events = None
    /\ l2_channel = None
    /\ l2_advertise = FALSE
    /\ test_status_map = {}
    /\ l2_proxies = 0
    /\ l2_recorded = FALSE
    /\ l2_sent = <<>>
    /\ l2_mmi = ""
    /\ l2_calls = <<>>
    /\ l2_prompt = <<>>

\* the class body and L2CAPProxy.__init__ for the first test
L2Init ==
    /\ l2_test \in L2Tests
    /\ l2_connection = None
    /\ l2_pairing_events = None
    /\ l2_channel = None
    /\ l2_advertise = FALSE      \* __init__ does not set self.advertise
    /\ test_status_map = {}
    /\ l2_proxies = 1
    /\ l2_recorded = FALSE
    /\ l2_sent = <<>>
    /\ l2_mmi = ""
    /\ l2_calls = <<>>
    /\ l2_prompt = <<>>

\* the driver makes a new proxy for the next test; the class attribute
\* test_status_map stays
L2CAPProxy_init(test) ==
    /\ profile = "L2CAP"
    /\ UNCHANGED notL2CAP
    /\ l2_proxies < MaxProxies
    /\ l2_proxies' = l2_proxies + 1
    /\ l2_recorded' = FALSE
    /\ l2_test' = test
    /\ l2_connection' = None
    /\ l2_pairing_events' = None
    /\ l2_channel' = None
    /\ l2_advertise' = FALSE
    /\ l2_sent' = <<>>
    /\ l2_mmi' = ""
    /\ l2_calls' = <<>>
    /\ l2_prompt' = <<>>
    /\ UNCHANGED <<profile, ret, test_status_map>>

\* what every handler does to the history: it is the handler invoked last
L2Step(mmi, calls, prompt) ==
    /\ profile = "L2CAP"
    /\ UNCHANGED notL2CAP
    /\ l2_mmi' = mmi
    /\ l2_calls' = calls
    /\ l2_prompt' = prompt
    /\ UNCHANGED <<profile, l2_test, l2_proxies>>

\* a handler that does not write to test_status_map
L2Invoke(mmi, calls, prompt) ==
    /\ L2Step(mmi, calls, prompt)
    /\ UNCHANGED l2_recorded

L2CAP_test_started ==
    /\ L2Invoke("test_started", <<>>, <<>>)
    /\ ret' = "OK"
    /\ UNCHANGED <<l2_connection, l2_pairing_events, l2_channel, l2_advertise,
                   test_status_map, l2_sent>>

psm(test) ==
    IF test = "L2CAP/LE/CFC/BV-12-C" THEN 243
    ELSE IF test = "L2CAP/LE/CFC/BV-10-C" THEN 242
    ELSE IF test = "L2CAP/LE/CFC/BV-04-C" THEN 241
    ELSE 37

\* a: what next(self.advertise) gives; c: what l2cap.Connect gives
MMI_IUT_SEND_LE_CREDIT_BASED_CONNECTION_REQUEST(a, c) ==
    LET mmi == "MMI_IUT_SEND_LE_CREDIT_BASED_CONNECTION_REQUEST"
        next_advertise == Call("next(advertise)", a, None, 0, a # None)
        Connect == Call("Connect", a, c.channel, psm(l2_test), c.kind = "channel")
    IN
    /\ profile = "L2CAP"
    /\ UNCHANGED <<l2_pairing_events, l2_advertise, l2_sent>>
    /\ IF l2_connection # None /\ l2_test = "L2CAP/LE/CFC/BV-02-C"
       THEN /\ L2Invoke(mmi, <<>>, <<>>)
            /\ ret' = "OK"
            /\ UNCHANGED <<l2_connection, l2_channel, test_status_map>>
       ELSE IF l2_connection # None          \* assert self.connection is None
       THEN /\ L2Invoke(mmi, <<>>, <<>>)
            /\ ret' = "RAISE"
            /\ UNCHANGED <<l2_connection, l2_channel, test_status_map>>
       ELSE IF ~l2_advertise                 \* AttributeError
       THEN /\ L2Invoke(mmi, <<>>, <<>>)
            /\ ret' = "RAISE"
            /\ UNCHANGED <<l2_connection, l2_channel, test_status_map>>
       ELSE IF a = None                      \* next() raised
       THEN /\ L2Invoke(mmi, <<next_advertise>>, <<>>)
            /\ ret' = "RAISE"
            /\ UNCHANGED <<l2_connection, l2_channel, test_status_map>>
       ELSE /\ L2Step(mmi, <<next_advertise, Connect>>, <<>>)
            /\ l2_connection' = a
            /\ IF c.kind = "channel"
               THEN /\ l2_channel' = c.channel
                    /\ ret' = "OK"
                    /\ UNCHANGED <<test_status_map, l2_recorded>>
               ELSE IF l2_test \in tests_target_to_fail
               THEN /\ test_status_map' = SetItem(test_status_map, l2_test, "OK")
                    /\ l2_recorded' = TRUE
                    /\ ret' = "OK"
                    /\ UNCHANGED l2_channel
               ELSE /\ ret' = "RAISE"
                    /\ UNCHANGED <<l2_channel, test_status_map, l2_recorded>>

\* w: what l2cap.WaitConnection gives
MMI_TESTER_ENABLE_LE_CONNECTION(w) ==
    LET mmi == "MMI_TESTER_ENABLE_LE_CONNECTION"
        WaitConnection == Call("WaitConnection", None, w.channel, 0, w.kind = "channel")
    IN
    /\ profile = "L2CAP"
    /\ l2_advertise' = TRUE
    /\ UNCHANGED <<l2_connection, l2_pairing_events, test_status_map, l2_sent>>
    /\ IF l2_test \in tests_to_open_bluetooth_server_socket
       THEN /\ L2Invoke(mmi, <<WaitConnection>>, <<>>)
            /\ IF w.kind = "channel"
               THEN l2_channel' = w.channel /\ ret' = "OK"
               ELSE UNCHANGED l2_channel /\ ret' = "RAISE"
       ELSE /\ L2Invoke(mmi, <<>>, <<>>)
            /\ ret' = "OK"
            /\ UNCHANGED l2_channel

SendLEDataNoAssert(mmi, data, ok) ==
    /\ profile = "L2CAP"
    /\ UNCHANGED <<l2_connection, l2_pairing_events, l2_channel, l2_advertise,
                   test_status_map>>
    /\ L2Invoke(mmi, <<Call("Send", None, l2_channel, 0, ok)>>, <<>>)
    /\ IF ok
       THEN ret' = "OK" /\ l2_sent' = data
       ELSE ret' = "RAISE" /\ UNCHANGED l2_sent

\* assert self.channel; self.l2cap.Send(channel=self.channel, data=data)
SendLEData(mmi, data, ok) ==
    /\ profile = "L2CAP"
    /\ UNCHANGED <<l2_connection, l2_pairing_events, l2_channel, l2_advertise,
                   test_status_map>>
    /\ IF l2_channel = None
       THEN /\ L2Invoke(mmi, <<>>, <<>>)
            /\ ret' = "RAISE"
            /\ UNCHANGED l2_sent
       ELSE /\ L2Invoke(mmi, <<Call("Send", None, l2_channel, 0, ok)>>, <<>>)
            /\ IF ok
               THEN ret' = "OK" /\ l2_sent' = data
               ELSE ret' = "RAISE" /\ UNCHANGED l2_sent

MMI_UPPER_TESTER_SEND_LE_DATA_PACKET_LARGE(ok) ==
    SendLEData("MMI_UPPER_TESTER_SEND_LE_DATA_PACKET_LARGE",
               bytes_LE_DATA_PACKET_LARGE, ok)

MMI_UPPER_TESTER_SEND_LE_DATA_PACKET4(ok) ==
    SendLEData("MMI_UPPER_TESTER_SEND_LE_DATA_PACKET4", LE_DATA_4_FRAMES, ok)

MMI_UPPER_TESTER_SEND_LE_DATA_PACKET_CONTINUE(ok) ==
    SendLEData("MMI_UPPER_TESTER_SEND_LE_DATA_PACKET_CONTINUE", LE_DATA_4_FRAMES, ok)

MMI_UPPER_TESTER_SEND_LE_DATA_PACKET1(ok) ==
    SendLEData("MMI_UPPER_TESTER_SEND_LE_DATA_PACKET1", bytes_LE_DATA_PACKET1, ok)

hex_LE_DATA_PACKET(test) ==
    IF test = "L2CAP/COS/CFC/BV-02-C"
    THEN hex_LE_DATA_PACKET1
    ELSE hex_LE_DATA_PACKET_LARGE

MMI_UPPER_TESTER_CONFIRM_LE_DATA(sent_data) ==
    /\ L2Invoke("MMI_UPPER_TESTER_CONFIRM_LE_DATA", <<>>, sent_data)
    /\ ret' = IF sent_data # hex_LE_DATA_PACKET(l2_test) THEN "RAISE" ELSE "OK"
    /\ UNCHANGED <<l2_connection, l2_pairing_events, l2_channel, l2_advertise,
                   test_status_map, l2_sent>>

\* the handlers whose body is `if self.test_status_map[test] != "OK": raise`;
\* _mmi_135 returns what MMI_IUT_SEND_INSUFFICIENT_AUTHENTICATION_ON_LE returns
L2StatusHandlers ==
    { "MMI_UPPER_TESTER_CONFIRM_RECEIVE_COMMAND_NOT_UNDERSTAOOD",
      "MMI_UPPER_TESTER_CONFIRM_RECEIVE_REJECT_PSM",
      "MMI_UPPER_TESTER_CONFIRM_RECEIVE_REJECT_AUTHENTICATION",
      "_mmi_135", "MMI_IUT_SEND_INSUFFICIENT_AUTHENTICATION_ON_LE",
      "MMI_UPPER_TESTER_CONFIRM_RECEIVE_REJECT_AUTHORIZATION",
      "MMI_UPPER_TESTER_CONFIRM_RECEIVE_REJECT_ENCRYPTION_KEY_SIZE",
      "MMI_UPPER_TESTER_CONFIRM_RECEIVE_REJECT_INVALID_SOURCE_CID",
      "MMI_UPPER_TESTER_CONFIRM_RECEIVE_REJECT_SOURCE_CID_ALREADY_ALLOCATED",
      "MMI_UPPER_TESTER_CONFIRM_RECEIVE_REJECT_UNACCEPTABLE_PARAMETERS",
      "MMI_UPPER_TESTER_CONFIRM_RECEIVE_REJECT_RESOURCES" }

\* self.test_status_map[test] raises KeyError when the test has no item
L2StatusResult(d, test) ==
    IF ~HasKey(d, test) THEN "RAISE"
    ELSE IF GetItem(d, test) # "OK" THEN "RAISE"
    ELSE "OK"

L2Status(h) ==
    /\ L2Invoke(h, <<>>, <<>>)
    /\ ret' = L2StatusResult(test_status_map, l2_test)
    /\ UNCHANGED <<l2_connection, l2_pairing_events, l2_channel, l2_advertise,
                   test_status_map, l2_sent>>

ReceiveResults == { "data", "empty", "raise" }

\* r: what next(self.l2cap.Receive(channel=self.channel)) gives
MMI_UPPER_TESTER_CONFIRM_DATA_RECEIVE(r) ==
    LET mmi == "MMI_UPPER_TESTER_CONFIRM_DATA_RECEIVE" IN
    /\ profile = "L2CAP"
    /\ UNCHANGED <<l2_connection, l2_pairing_events, l2_channel, l2_advertise,
                   test_status_map, l2_sent>>
    /\ IF l2_channel = None
       THEN /\ L2Invoke(mmi, <<>>, <<>>)
            /\ ret' = "RAISE"
       ELSE /\ L2Invoke(mmi, <<Call("Receive", None, l2_channel, 0, r # "raise")>>, <<>>)
            /\ ret' = IF r = "data" THEN "OK" ELSE "RAISE"

\* r: what host.ConnectLE gives
MMI_IUT_ENABLE_LE_CONNECTION(r) ==
    /\ L2Invoke("MMI_IUT_ENABLE_LE_CONNECTION",
                <<Call("ConnectLE", r, None, 0, r # None)>>, <<>>)
    /\ IF r = None
       THEN ret' = "RAISE" /\ UNCHANGED l2_connection
       ELSE ret' = "OK" /\ l2_connection' = r
    /\ UNCHANGED <<l2_pairing_events, l2_channel, l2_advertise, test_status_map,
                   l2_sent>>

MMI_IUT_SEND_ACL_DISCONNECTION(ok) ==
    LET mmi == "MMI_IUT_SEND_ACL_DISCONNECTION" IN
    /\ profile = "L2CAP"
    /\ UNCHANGED <<l2_connection, l2_pairing_events, l2_channel, l2_advertise,
                   test_status_map, l2_sent>>
    /\ IF l2_test \notin tests_to_skip_disconnect
       THEN /\ L2Invoke(mmi, <<Call("Disconnect", l2_connection, None, 0, ok)>>, <<>>)
            /\ ret' = IF ok THEN "OK" ELSE "RAISE"
       ELSE /\ L2Invoke(mmi, <<>>, <<>>)
            /\ ret' = "OK"

\* r: what host.Connect gives; the stream is opened before
MMI_IUT_INITIATE_ACL_CONNECTION(r) ==
    /\ L2Invoke("MMI_IUT_INITIATE_ACL_CONNECTION",
                <<Call("OnPairing", None, None, 0, TRUE),
                  Call("Connect", r, None, 0, r # None)>>, <<>>)
    /\ l2_pairing_events' = OnPairing
    /\ IF r = None
       THEN ret' = "RAISE" /\ UNCHANGED l2_connection
       ELSE ret' = "OK" /\ l2_connection' = r
    /\ UNCHANGED <<l2_channel, l2_advertise, test_status_map, l2_sent>>

\* `if event.numeric_comparison:` in the place of the comparison with int(passkey)
Mmi2001Truthy(event) ==
    IF event = StreamEnd THEN "RAISE"
    ELSE IF Truthy(numeric_comparison(event)) THEN "OK"
    ELSE "RAISE"

Mmi2001FallsThrough(event) ==
    IF event = StreamEnd THEN "None"
    ELSE IF numeric_comparison(event) = int(<<"0", "0", "0", "0", "0", "0">>) THEN "OK"
    ELSE "RAISE"

\* the body of _mmi_2001 for the first thing the stream gives
Mmi2001Result(event) ==
    IF event = StreamEnd THEN "RAISE"                \* assert False after the loop
    ELSE IF numeric_comparison(event) = int(<<"0", "0", "0", "0", "0", "0">>) THEN "OK"
    ELSE "RAISE"                                     \* assert False in the loop

\* event: what the pairing stream gives first
_mmi_2001(event) ==
    LET mmi == "_mmi_2001"
        next_event == Call("next(pairing_events)", None, None, event.value,
                           event # StreamEnd)
        send == Call("send(confirm=True)", None, None, event.value, TRUE)
    IN
    /\ profile = "L2CAP"
    /\ UNCHANGED <<l2_connection, l2_pairing_events, l2_channel, l2_advertise,
                   test_status_map, l2_sent>>
    /\ IF l2_pairing_events = None          \* TypeError: None is not iterable
       THEN /\ L2Invoke(mmi, <<>>, <<>>)
            /\ ret' = "RAISE"
       ELSE /\ ret' = Mmi2001Result(event)
            /\ IF ret' = "OK"
               THEN L2Invoke(mmi, <<next_event, send>>, <<>>)
               ELSE L2Invoke(mmi, <<next_event>>, <<>>)

\* the handlers whose body is `return "OK"`; _mmi_136 returns what
\* MMI_IUT_SEND_INSUFFICIENT_AUTHORIZATION_ON_LE returns
L2PlainHandlers ==
    { "_mmi_136", "MMI_IUT_SEND_INSUFFICIENT_AUTHORIZATION_ON_LE",
      "MMI_TESTER_ENABLE_CONNECTION", "MMI_IUT_SEND_CONFIG_REQ",
      "MMI_IUT_SEND_CONFIG_RSP", "MMI_IUT_SEND_DISCONNECT_RSP",
      "MMI_IUT_SEND_L2CAP_DATA", "MMI_IUT_DISABLE_CONNECTION",
      "MMI_IUT_SEND_CONFIGURE_CONNECTION_ACCORDING_TO_FEATURE",
      "MMI_IUT_REPORT_ERROR", "MMI_IUT_SEND_L2CAP_CONNECTION_REQ",
      "MMI_CONFIRM_UPPER_TESTER_DOES_NOT_RECEIVE_DATA" }

L2PlainResult(h) == "OK"

L2Plain(h) ==
    /\ L2Invoke(h, <<>>, <<>>)
    /\ ret' = L2PlainResult(h)
    /\ UNCHANGED <<l2_connection, l2_pairing_events, l2_channel, l2_advertise,
                   test_status_map, l2_sent>>

NextL2CAP ==
    \/ \E test \in L2Tests : L2CAPProxy_init(test)
    \/ L2CAP_test_started
    \/ \E a \in RemoteResults, c \in ChannelResponses :
          MMI_IUT_SEND_LE_CREDIT_BASED_CONNECTION_REQUEST(a, c)
    \/ \E w \in ChannelResponses : MMI_TESTER_ENABLE_LE_CONNECTION(w)
    \/ \E ok \in BOOLEAN : MMI_UPPER_TESTER_SEND_LE_DATA_PACKET_LARGE(ok)
    \/ \E sent_data \in SentData : MMI_UPPER_TESTER_CONFIRM_LE_DATA(sent_data)
    \/ \E ok \in BOOLEAN : MMI_UPPER_TESTER_SEND_LE_DATA_PACKET4(ok)
    \/ \E ok \in BOOLEAN : MMI_UPPER_TESTER_SEND_LE_DATA_PACKET_CONTINUE(ok)
    \/ \E h \in L2StatusHandlers : L2Status(h)
    \/ \E r \in ReceiveResults : MMI_UPPER_TESTER_CONFIRM_DATA_RECEIVE(r)
    \/ \E r \in RemoteResults : MMI_IUT_ENABLE_LE_CONNECTION(r)
    \/ \E ok \in BOOLEAN : MMI_IUT_SEND_ACL_DISCONNECTION(ok)
    \/ \E r \in RemoteResults : MMI_IUT_INITIATE_ACL_CONNECTION(r)
    \/ \E event \in PairingEvents \cup {StreamEnd} : _mmi_2001(event)
    \/ \E ok \in BOOLEAN : MMI_UPPER_TESTER_SEND_LE_DATA_PACKET1(ok)
    \/ \E h \in L2PlainHandlers : L2Plain(h)

(***************************************************************************)
(* OPPProxy (opp.py).                                                      *)
(***************************************************************************)
OPPIdle ==
    /\ opp_connection = None
    /\ opp_mmi = ""
    /\ opp_calls = <<>>

\* OPPProxy.__init__
OPPInit ==
    /\ opp_connection = None
    /\ opp_mmi = ""
    /\ opp_calls = <<>>

\* what host.WaitConnection(address=pts_addr) gives: a response whose
\* connection is one of the handles, or an exception (None)
WaitConnectionResults == (1..MaxOPPHandles) \cup {None}

\* a remote call as opp_calls keeps it: the handler that made it, the method,
\* the connection of its response and whether it returned
OPPRemoteCall(mmi, op, connection, ok) ==
    [mmi |-> mmi, op |-> op, connection |-> connection, ok |-> ok]

\* the history may still grow by one remote call
CallsOpen == Len(opp_calls) < MaxCalls

OPPInvoke(mmi) ==
    /\ profile = "OPP"
    /\ UNCHANGED notOPP
    /\ opp_mmi' = mmi
    /\ UNCHANGED profile

\* the handler without `if self.connection is None:`
AcceptConnectAlwaysWaits(r) ==
    /\ OPPInvoke("TSC_OBEX_MMI_iut_accept_connect_OPP")
    /\ CallsOpen
    /\ opp_calls' = Append(opp_calls,
                           OPPRemoteCall("TSC_OBEX_MMI_iut_accept_connect_OPP",
                                         "WaitConnection", r, r # None))
    /\ IF r = None
       THEN ret' = "RAISE" /\ UNCHANGED opp_connection
       ELSE ret' = "OK" /\ opp_connection' = r

\* r: what host.WaitConnection gives
TSC_OBEX_MMI_iut_accept_connect_OPP(r) ==
    /\ OPPInvoke("TSC_OBEX_MMI_iut_accept_connect_OPP")
    /\ IF opp_connection = None
       THEN /\ CallsOpen
            /\ opp_calls' = Append(opp_calls,
                                   OPPRemoteCall("TSC_OBEX_MMI_iut_accept_connect_OPP",
                                                 "WaitConnection", r, r # None))
            /\ IF r = None
               THEN ret' = "RAISE" /\ UNCHANGED opp_connection
               ELSE ret' = "OK" /\ opp_connection' = r
       ELSE /\ ret' = "OK"
            /\ UNCHANGED <<opp_connection, opp_calls>>

TSC_OBEX_MMI_iut_accept_slc_connect_l2cap(r) ==
    /\ OPPInvoke("TSC_OBEX_MMI_iut_accept_slc_connect_l2cap")
    /\ CallsOpen
    /\ opp_calls' = Append(opp_calls,
                           OPPRemoteCall("TSC_OBEX_MMI_iut_accept_slc_connect_l2cap",
                                         "WaitConnection", r, r # None))
    /\ IF r = None
       THEN ret' = "RAISE" /\ UNCHANGED opp_connection
       ELSE ret' = "OK" /\ opp_connection' = r

\* the handlers that make one remote call of self.opp and return "OK"
OPPCallHandlers ==
    { <<"TSC_OBEX_MMI_iut_accept_put", "AcceptPutOperation">>,
      <<"TSC_OBEX_MMI_iut_initiate_slc_connect_rfcomm", "OpenRfcommChannel">>,
      <<"TSC_OBEX_MMI_iut_initiate_slc_connect_l2cap", "OpenL2capChannel">> }

OPPCall(h, ok) ==
    /\ OPPInvoke(h[1])
    /\ CallsOpen
    /\ opp_calls' = Append(opp_calls, OPPRemoteCall(h[1], h[2], None, ok))
    /\ ret' = IF ok THEN "OK" ELSE "RAISE"
    /\ UNCHANGED opp_connection

\* the handlers whose body is `return "OK"`
OPPPlainHandlers ==
    { "TSC_OPP_mmi_user_action_remove_object",
      "TSC_OPP_mmi_user_verify_does_object_exist",
      "TSC_OBEX_MMI_iut_reject_action", "TSC_OBEX_MMI_iut_accept_disconnect",
      "TSC_OBEX_MMI_iut_accept_slc_disconnect",
      "TSC_OPP_mmi_user_verify_opp_format_indication",
      "TSC_OBEX_MMI_iut_initiate_connect_OPP", "TSC_OBEX_MMI_iut_initiate_put",
      "TSC_OPP_mmi_user_verify_client_pushed_file",
      "TSC_OBEX_MMI_iut_initiate_slc_disconnect",
      "TSC_OBEX_MMI_iut_initiate_disconnect" }

OPPPlainResult(h) == "OK"

OPPPlain(h) ==
    /\ OPPInvoke(h)
    /\ ret' = OPPPlainResult(h)
    /\ UNCHANGED <<opp_connection, opp_calls>>

NextOPP ==
    \/ \E r \in WaitConnectionResults : TSC_OBEX_MMI_iut_accept_connect_OPP(r)
    \/ \E r \in WaitConnectionResults : TSC_OBEX_MMI_iut_accept_slc_connect_l2cap(r)
    \/ \E h \in OPPCallHandlers, ok \in BOOLEAN : OPPCall(h, ok)
    \/ \E h \in OPPPlainHandlers : OPPPlain(h)

(***************************************************************************)
(* One specification for each proxy, and one for a run of any of them.     *)
(***************************************************************************)
InitSDP ==
    /\ profile = "SDP"
    /\ ret = ""
    /\ SMInit
    /\ SDPInit
    /\ L2Idle
    /\ OPPIdle

SpecSDP == InitSDP /\ [][NextSDP]_vars

InitSM ==
    /\ profile = "SM"
    /\ ret = ""
    /\ SMInit
    /\ SDPIdle
    /\ L2Idle
    /\ OPPIdle

SpecSM == InitSM /\ [][NextSM]_vars

InitL2CAP ==
    /\ profile = "L2CAP"
    /\ ret = ""
    /\ SMInit
    /\ SDPIdle
    /\ L2Init
    /\ OPPIdle

SpecL2CAP == InitL2CAP /\ [][NextL2CAP]_vars

InitOPP ==
    /\ profile = "OPP"
    /\ ret = ""
    /\ SMInit
    /\ SDPIdle
    /\ L2Idle
    /\ OPPInit

SpecOPP == InitOPP /\ [][NextOPP]_vars

Init == InitSM \/ InitSDP \/ InitL2CAP \/ InitOPP

Next == NextSM \/ NextSDP \/ NextL2CAP \/ NextOPP

Spec == Init /\ [][Next]_vars

(***************************************************************************)
(* Claims about the SM proxy, checked under SpecSM.                        *)
(***************************************************************************)
\* the task is past the `if event.just_works or ...` step for event i
PastConfirm(i) == i < task_event \/ (i = task_event /\ task_pc # "confirm")

AnswersFor(i) == { k \in 1..Len(answers) : answers[k].event = i }

\* C1 (as claimed): every just-works or numeric-comparison event, whatever the
\* numeric value, is answered with confirm=True and without a get on the
\* passkey queue.  The code leaves a numeric-comparison event of value 0
\* unanswered.
C1_AutoConfirmEveryValue ==
    profile = "SM" =>
      \A i \in 1..Len(pairing_stream) :
        (pairing_stream[i].variant \in {"just_works", "numeric_comparison"}
           /\ PastConfirm(i))
        => /\ \E k \in AnswersFor(i) :
                answers[k].answer = "confirm" /\ answers[k].confirm
           /\ pairing_stream[i].gets = 0

\* C2 (as claimed): a passkey answer carries the numeric value of the string
\* most recently placed on the queue.
C2_MostRecentlyPlaced ==
    profile = "SM" =>
      \A k \in 1..Len(answers) :
        answers[k].answer = "passkey"
        => \/ IntRaises(placed[answers[k].puts])
           \/ answers[k].passkey = int(placed[answers[k].puts])

\* C2 (amended): a passkey answer carries the numeric value of the oldest
\* string not yet taken off the queue: the n-th string taken is the n-th
\* string MMI_DISPLAY_PASSKEY_CODE placed.
C2_OldestPending ==
    profile = "SM" =>
      \A k \in 1..Len(answers) :
        answers[k].answer = "passkey"
        => /\ answers[k].nth \in 1..Len(placed)
           /\ answers[k].passkey = int(placed[answers[k].nth])
           /\ pairing_stream[answers[k].event].variant = "passkey_entry_request"

\* C2 witness: a passkey answer sent while a later passkey was on the queue,
\* whose string and number differ ("000007" and 7)
C2_Witness ==
    \E k \in 1..Len(answers) :
      /\ answers[k].answer = "passkey"
      /\ answers[k].puts > answers[k].nth
      /\ answers[k].passkey = 7
      /\ placed[answers[k].puts] # placed[answers[k].nth]

\* C3: a passkey-entry-request event whose wait timed out has no answer, had
\* one get only, and leaves the task alive at the stream; each timeout is
\* logged once.
C3_TimeoutAbandons ==
    profile = "SM" =>
      /\ \A i \in 1..Len(pairing_stream) :
           pairing_stream[i].timeout
           => /\ AnswersFor(i) = {}
              /\ pairing_stream[i].gets = 1
              /\ (task_event = i => task_pc = "next")
      /\ debug_log = Cardinality({ i \in 1..Len(pairing_stream) :
                                     pairing_stream[i].timeout })

\* C3 witness: a timed-out passkey-entry-request, the task back at the stream
C3_Witness ==
    /\ task_event > 0
    /\ pairing_stream[task_event].variant = "passkey_entry_request"
    /\ pairing_stream[task_event].timeout
    /\ task_pc = "next"
    /\ debug_log = 1

\* C4: in every state of the pairing task and of the secure threads, every SM
\* handler can run to its return; MMI_DISPLAY_PASSKEY_CODE and
\* MMI_ASK_IUT_PERFORM_PAIRING_PROCESS return "OK".  (The bounds on the number
\* of prompts are the model's.)
C4_HandlersNeverBlock ==
    profile = "SM" =>
      /\ \A p \in PasskeyStrings :
           RunOpen
           => ENABLED (MMI_DISPLAY_PASSKEY_CODE(p) /\ ret' = "OK")
      /\ RunOpen
         => ENABLED (MMI_ASK_IUT_PERFORM_PAIRING_PROCESS /\ ret' = "OK")
      /\ ENABLED SM_test_started
      /\ \A r \in RemoteResults :
           /\ ENABLED MMI_IUT_ENABLE_CONNECTION_SM(r)
           /\ ENABLED MMI_IUT_INITIATE_CONNECTION_BR_EDR_PAIRING(r)
      /\ \A ok \in BOOLEAN :
           /\ ENABLED MMI_IUT_SEND_DISCONNECTION_REQUEST(ok)
           /\ ENABLED MMI_ASK_IUT_PERFORM_RESET(ok)
           /\ ENABLED MMI_TESTER_ENABLE_CONNECTION_SM(ok)
      /\ \A h \in SMPlainHandlers : ENABLED SMPlain(h)

\* C4 witness: the task waits on the passkey queue, a secure thread has not
\* finished, and a handler has put a passkey and returned
C4_Witness ==
    /\ task_pc = "get"
    /\ passkey_queue # <<>>
    /\ ret = "OK"
    /\ \E t \in 1..Len(secure_threads) : secure_threads[t].pc = "call"

(***************************************************************************)
(* Claims about the SDP service-list comparison, checked under SpecSDP.    *)
(***************************************************************************)
\* the services the claims call optional and movable
ClaimOptional ==
    { "Generic Attribute service", "A/V_RemoteControlController",
      "Android Auto Compatibility", "TMAS" }

ClaimMovable == { "TMAS", "Message Access Server" }

\* the reported list, translated
ReportedNames == [i \in 1..Len(sdp_uuids) |-> ServiceNames[sdp_uuids[i]]]

\* the expected list once the optional services not reported are removed
ExpectedNames ==
    SelectSeq(expected_services,
              LAMBDA n : n \notin ClaimOptional \/ In(n, ReportedNames))

MovablePart(names) == SelectSeq(names, LAMBDA n : n \in ClaimMovable)

FixedPart(names) == SelectSeq(names, LAMBDA n : n \notin ClaimMovable)

SameCounts(xs, ys) ==
    \A n \in Elements(xs) \cup Elements(ys) :
      Cardinality({ i \in 1..Len(xs) : xs[i] = n })
        = Cardinality({ i \in 1..Len(ys) : ys[i] = n })

\* C5 (as claimed): the check fails exactly when the movable services differ as
\* sets or the fixed-order services differ as sequences.
C5_FailsIffSetsOrSequencesDiffer ==
    sdp_result # ""
    => (sdp_result = "RAISE"
          <=> \/ Elements(MovablePart(ReportedNames)) # Elements(MovablePart(ExpectedNames))
              \/ FixedPart(ReportedNames) # FixedPart(ExpectedNames))

\* C5 (amended): the check fails exactly when the movable services differ as
\* multisets (a movable service reported twice fails) or the fixed-order
\* services differ as sequences; it returns "OK" otherwise.
C5_FailsIffCountsOrSequencesDiffer ==
    sdp_result # ""
    => /\ sdp_result \in {"OK", "RAISE"}
       /\ sdp_result = "RAISE"
            <=> \/ ~SameCounts(MovablePart(ReportedNames), MovablePart(ExpectedNames))
                \/ FixedPart(ReportedNames) # FixedPart(ExpectedNames)

\* C5 witness: a list failed only because a movable service is reported twice
C5_Witness ==
    /\ sdp_result = "RAISE"
    /\ Elements(MovablePart(ReportedNames)) = Elements(MovablePart(ExpectedNames))
    /\ FixedPart(ReportedNames) = FixedPart(ExpectedNames)

\* C6: if the reported list passes, so does every list got from it by moving
\* a movable service (TMAS, Message Access Server) to any other position.
C6_MovableAnywhere ==
    sdp_result = "OK"
    => \A i, j \in 1..Len(sdp_uuids) :
         ReportedNames[i] \in ClaimMovable
         => VerifyBrowsableServices(MoveTo(sdp_uuids, i, j)) = "OK"

\* C6 witness: a list passed with TMAS moved to the front
C6_Witness ==
    /\ sdp_result = "OK"
    /\ sdp_edits > 0
    /\ ReportedNames[1] = "TMAS"

\* the entries of a list before the first n
Before(n, names) ==
    SubSeq(names, 1, (CHOOSE i \in 1..Len(names) : names[i] = n
                                    /\ \A k \in 1..(i - 1) : names[k] # n) - 1)

\* C7: a reference list that lacks any of the optional services passes, and a
\* passing list still passes with an optional service taken out; in a passing
\* list an optional service is there once, at its reference position among
\* the fixed-order services when it is fixed-order, anywhere when it is
\* movable.
C7_OptionalServices ==
    /\ (sdp_result # "" /\ sdp_edits = 0) => sdp_result = "OK"
    /\ sdp_result = "OK"
       => \A i \in 1..Len(sdp_uuids) :
            LET n == ReportedNames[i]
            IN  n \in ClaimOptional
                => /\ Len(sdp_uuids) > 2
                      => VerifyBrowsableServices(RemoveAt(sdp_uuids, i)) = "OK"
                   /\ Cardinality({ k \in 1..Len(sdp_uuids) : ReportedNames[k] = n }) = 1
                   /\ n \notin ClaimMovable
                      => Before(n, FixedPart(ReportedNames))
                           = Before(n, FixedPart(ExpectedNames))
                   /\ n \in ClaimMovable
                      => \A j \in 1..Len(sdp_uuids) :
                           VerifyBrowsableServices(MoveTo(sdp_uuids, i, j)) = "OK"

\* C7 witness: a passing list that lacks one optional service, has another at
\* its reference position and has the movable optional one out of place
C7_Witness ==
    /\ sdp_result = "OK"
    /\ ~In("Generic Attribute service", ReportedNames)
    /\ In("A/V_RemoteControlController", ReportedNames)
    /\ ReportedNames[Len(ReportedNames)] = "TMAS"

(***************************************************************************)
(* Claims about the L2CAP proxy, checked under SpecL2CAP.                  *)
(***************************************************************************)
\* C8 (as claimed): when MMI_UPPER_TESTER_CONFIRM_LE_DATA follows a send handler
\* in the same test, it returns "OK" exactly when the value of the prompt is the
\* upper-case hex encoding of the bytes that send handler transmitted, whichever
\* of the four send handlers it was and whatever the test
C8_ConfirmMatchesWhatWasSent ==
    (l2_mmi = "MMI_UPPER_TESTER_CONFIRM_LE_DATA" /\ l2_sent # <<>>)
        => (ret = "OK" <=> l2_prompt = upper(hex(l2_sent)))

CreditBasedRequest == "MMI_IUT_SEND_LE_CREDIT_BASED_CONNECTION_REQUEST"

\* the remote calls of the handler invoked last that failed, among `ops`
FailedCalls(ops) ==
    { k \in 1..Len(l2_calls) : l2_calls[k].op \in ops /\ ~l2_calls[k].ok }

\* the allowlist as the claim knows it
ClaimAllowlist ==
    { "L2CAP/LE/CFC/BV-01-C", "L2CAP/LE/CFC/BV-04-C", "L2CAP/LE/CFC/BV-14-C",
      "L2CAP/LE/CFC/BV-16-C", "L2CAP/LE/CFC/BV-18-C", "L2CAP/LE/CFC/BV-19-C",
      "L2CAP/LE/CFC/BV-21-C" }

\* the outcome the claim gives to a failure in test l2_test
AllowlistOutcome ==
    IF l2_test \in ClaimAllowlist
    THEN ret = "OK" /\ <<l2_test, "OK">> \in test_status_map
    ELSE ret = "RAISE" /\ ~HasKey(test_status_map, l2_test)

\* C9 (as claimed): in MMI_IUT_SEND_LE_CREDIT_BASED_CONNECTION_REQUEST a failure
\* of any remote call gives "OK" and a recorded 'OK' on an allowlisted test, and
\* an exception and no record on any other test
C9_AnyRemoteCallFailure ==
    (l2_mmi = CreditBasedRequest /\ FailedCalls({"next(advertise)", "Connect"}) # {})
        => AllowlistOutcome

\* C9 (amended): that is so for a failure of the l2cap.Connect call (an exception
\* or a response without a channel); a failure of next(self.advertise), which
\* is outside the try, is raised on every test
C9_ConnectFailure ==
    /\ (l2_mmi = CreditBasedRequest /\ FailedCalls({"Connect"}) # {})
          => AllowlistOutcome
    /\ (l2_mmi = CreditBasedRequest /\ FailedCalls({"next(advertise)"}) # {})
          => ret = "RAISE"

\* C9 witness: l2cap.Connect failed in the allowlisted test that asks for an
\* unsupported PSM, and the handler returned "OK" and recorded it
C9_Witness ==
    /\ l2_mmi = CreditBasedRequest
    /\ FailedCalls({"Connect"}) # {}
    /\ l2_test = "L2CAP/LE/CFC/BV-04-C"
    /\ ret = "OK"
    /\ <<l2_test, "OK">> \in test_status_map

(***************************************************************************)
(* Claims about every proxy, checked under Spec.                           *)
(***************************************************************************)
\* C10: a handler of the L2CAP, OPP, SDP or SM proxy, test_started included,
\* raises or returns exactly "OK": once a handler was invoked, what it gave
\* back is one of the two
C10_OKOrRaise == ret # "" => ret \in {"OK", "RAISE"}

\* C10 witness: L2CAP _mmi_2001 ran on an open pairing stream that gave no
\* event, the path that leaves its for loop, and raised
C10_Witness ==
    /\ profile = "L2CAP"
    /\ l2_mmi = "_mmi_2001"
    /\ Len(l2_calls) = 1
    /\ ~l2_calls[1].ok
    /\ ret = "RAISE"

\* C11 (as claimed): a handler that asserts on the status map returns "OK" for
\* test T only if a handler invoked earlier on the proxy of this run of T
\* recorded 'OK' for T; when nothing was recorded in this run it raises
C11_OKOnlyIfRecordedInThisTest ==
    (l2_mmi \in L2StatusHandlers /\ ret = "OK") => l2_recorded

\* the six tests of tests_to_skip_disconnect as the claim knows them
ClaimSkipDisconnect ==
    { "L2CAP/COS/CED/BV-01-C", "L2CAP/COS/CED/BV-04-C", "L2CAP/COS/CED/BV-09-C",
      "L2CAP/COS/CFD/BV-08-C", "L2CAP/CMC/BI-05-C", "L2CAP/CMC/BI-06-C" }

ChannelUsers ==
    { "MMI_UPPER_TESTER_SEND_LE_DATA_PACKET_LARGE",
      "MMI_UPPER_TESTER_SEND_LE_DATA_PACKET1",
      "MMI_UPPER_TESTER_SEND_LE_DATA_PACKET4",
      "MMI_UPPER_TESTER_SEND_LE_DATA_PACKET_CONTINUE",
      "MMI_UPPER_TESTER_CONFIRM_DATA_RECEIVE" }

\* the handler invoked last stored the channel that a successful call gave it
StoredBy(mmi, op) ==
    /\ l2_mmi' = mmi
    /\ l2_calls' # <<>>
    /\ l2_calls'[Len(l2_calls')].op = op
    /\ l2_calls'[Len(l2_calls')].ok
    /\ l2_calls'[Len(l2_calls')].channel = l2_channel'

\* C13: a Send or Receive call is made only on the channel the proxy holds, and
\* the proxy holds a channel only once a successful l2cap.Connect
\* (MMI_IUT_SEND_LE_CREDIT_BASED_CONNECTION_REQUEST) or l2cap.WaitConnection
\* (MMI_TESTER_ENABLE_LE_CONNECTION) stored it; a send or receive handler
\* invoked with no channel raises and makes no remote call
C13_ChannelSetBeforeUse ==
    /\ [](\A k \in 1..Len(l2_calls) :
            l2_calls[k].op \in {"Send", "Receive"}
                => l2_calls[k].channel # None /\ l2_calls[k].channel = l2_channel)
    /\ [][ /\ (l2_channel' # l2_channel /\ l2_channel' # None)
                => \/ StoredBy("MMI_IUT_SEND_LE_CREDIT_BASED_CONNECTION_REQUEST", "Connect")
                   \/ StoredBy("MMI_TESTER_ENABLE_LE_CONNECTION", "WaitConnection")
           /\ (l2_mmi' \in ChannelUsers /\ l2_channel = None)
                => ret' = "RAISE" /\ l2_calls' = <<>> ]_vars

\* C13 witness: a send handler made its Send call on a channel that
\* WaitConnection or Connect had stored
C13_Witness ==
    /\ l2_mmi = "MMI_UPPER_TESTER_SEND_LE_DATA_PACKET1"
    /\ Len(l2_calls) = 1
    /\ l2_calls[1].op = "Send"
    /\ l2_calls[1].channel = l2_channel
    /\ l2_channel # None
    /\ ret = "OK"

\* C14 (as claimed): in test 'L2CAP/LE/CFC/BV-04-C', when
\* MMI_IUT_SEND_LE_CREDIT_BASED_CONNECTION_REQUEST has obtained a connection and
\* is invoked once more on the same proxy, the second invocation returns "OK"
C14_SecondRequestReturnsOK ==
    [][ ( /\ l2_test = "L2CAP/LE/CFC/BV-04-C"
          /\ l2_mmi = CreditBasedRequest
          /\ l2_calls # <<>>
          /\ l2_calls[1].ok
          /\ l2_connection = l2_calls[1].connection
          /\ l2_mmi' = CreditBasedRequest )
        => ret' = "OK" ]_vars

\* the service name the Bluetooth assigned numbers give to a UUID of a prompt,
\* and the UUID itself when the table has none for its number
ClaimName(uuid) ==
    CASE uuid = "0x1105" -> "OBEXObjectPush"
      [] uuid = "0x110A" -> "AudioSource"
      [] uuid = "0x110C" -> "A/V_RemoteControlTarget"
      [] uuid = "0x110E" -> "A/V_RemoteControl"
      [] uuid = "0x110F" -> "A/V_RemoteControlController"
      [] uuid = "0x1112" -> "Headset - Audio Gateway"
      [] uuid = "0x1115" -> "PANU"
      [] uuid = "0x1116" -> "NAP"
      [] uuid = "0x111F" -> "HandsfreeAudioGateway"
      [] uuid = "0x112F" -> "Phonebook Access - PSE"
      [] uuid \in {"0x1132", "0x01132"} -> "Message Access Server"
      [] uuid = "0x1203" -> "GenericAudio"
      [] uuid = "0x1800" -> "Generic Access"
      [] uuid = "0x1801" -> "Generic Attribute service"
      [] uuid = "0x1855" -> "TMAS"
      [] uuid = "0xC26CF57233694CF2B5CCD2CD130F5B2C" -> "Android Auto Compatibility"
      [] OTHER -> uuid

ClaimNames == [i \in 1..Len(sdp_uuids) |-> ClaimName(sdp_uuids[i])]

\* the expected list for ClaimNames, optional services not reported removed
ClaimExpected ==
    SelectSeq(expected_services,
              LAMBDA n : n \notin ClaimOptional \/ In(n, ClaimNames))

\* C15: every UUID of the prompt is compared under the name the table gives to
\* its number, and under its own text when the table has none: the handler's
\* result is the one the comparison gives for those names, so a prompt that
\* holds a UUID the table does not know fails
C15_TranslateOrPassThrough ==
    sdp_uuids # <<>> =>
      /\ \A i \in 1..Len(sdp_uuids) : ServiceName(sdp_uuids[i]) = ClaimName(sdp_uuids[i])
      /\ sdp_result = "OK" <=>
           /\ SameCounts(MovablePart(ClaimNames), MovablePart(ClaimExpected))
           /\ FixedPart(ClaimNames) = FixedPart(ClaimExpected)
      /\ (\E i \in 1..Len(sdp_uuids) : ClaimName(sdp_uuids[i]) = sdp_uuids[i])
           => sdp_result = "RAISE"

\* C15 witness: the prompt held a UUID that is not in the table, besides UUIDs
\* that are, and the handler raised
C15_Witness ==
    /\ sdp_uuids # <<>>
    /\ \E i \in 1..Len(sdp_uuids) : ServiceName(sdp_uuids[i]) = sdp_uuids[i]
    /\ \E i \in 1..Len(sdp_uuids) : ServiceName(sdp_uuids[i]) = "OBEXObjectPush"
    /\ sdp_result = "RAISE"


(***************************************************************************)
(* Claims about the SM background threads, checked under SpecSM.           *)
(***************************************************************************)
\* C16: no thread started by MMI_ASK_IUT_PERFORM_PAIRING_PROCESS has called
\* Secure with an absent (None) connection, however its steps interleave with
\* the handlers that write self.connection
C16_SecureNeverWithNone ==
    \A t \in 1..Len(secure_threads) :
        secure_threads[t].pc = "called" => secure_threads[t].connection # None


\* C17: the responder task has not stopped, and every passkey-entry-request
\* event it is done with was answered with a passkey or abandoned after the
\* wait, whatever strings MMI_DISPLAY_PASSKEY_CODE placed on the queue (the
\* safety part of "every event is eventually handled")
C17_ResponderKeepsRunning ==
    /\ task_pc \in {"next", "confirm", "get", "send"}
    /\ \A i \in 1..Len(pairing_stream) :
         ( /\ passkey_entry_request(pairing_stream[i])
           /\ i < task_event \/ (i = task_event /\ task_pc = "next") )
         => \/ pairing_stream[i].timeout
            \/ \E k \in 1..Len(answers) :
                 answers[k].event = i /\ answers[k].answer = "passkey"


PasskeyAnswers == { k \in 1..Len(answers) : answers[k].answer = "passkey" }

C19_StatusMapOnlyGrows ==
    /\ [](\A item \in test_status_map :
            /\ item[1] \in ClaimAllowlist
            /\ item[2] = "OK"
            /\ \A other \in test_status_map : other[1] = item[1] => other = item)
    /\ [][test_status_map \subseteq test_status_map']_vars

\* C19 witness: the second proxy recorded its test next to the entry that the
\* first proxy had left for another test
C19_Witness ==
    /\ l2_proxies = 2
    /\ l2_recorded
    /\ HasKey(test_status_map, l2_test)
    /\ \E item \in test_status_map : item[1] # l2_test


\* the calls of the last handler on the pairing stream: reads and answers
StreamReads == { k \in 1..Len(l2_calls) : l2_calls[k].op = "next(pairing_events)" }

StreamAnswers == { k \in 1..Len(l2_calls) : l2_calls[k].op = "send(confirm=True)" }

AcceptConnect == "TSC_OBEX_MMI_iut_accept_connect_OPP"

AcceptSlcConnect == "TSC_OBEX_MMI_iut_accept_slc_connect_l2cap"

\* the WaitConnection calls that handler mmi has made
WaitConnectionsBy(mmi) ==
    { k \in 1..Len(opp_calls) :
        opp_calls[k].mmi = mmi /\ opp_calls[k].op = "WaitConnection" }

\* C21 (as claimed): all the invocations of TSC_OBEX_MMI_iut_accept_connect_OPP
\* together issue at most one WaitConnection and leave a held connection
\* unchanged; every invocation of TSC_OBEX_MMI_iut_accept_slc_connect_l2cap
\* issues a WaitConnection and replaces the handle with the one it gives.  The
\* code issues WaitConnection again after one that raised, and a
\* WaitConnection that raises replaces nothing.
C21_AtMostOneWaitConnection ==
    /\ [](Cardinality(WaitConnectionsBy(AcceptConnect)) <= 1)
    /\ [][ /\ (opp_mmi' = AcceptConnect /\ opp_connection # None)
                => opp_connection' = opp_connection /\ opp_calls' = opp_calls
           /\ opp_mmi' = AcceptSlcConnect
                => /\ Len(opp_calls') = Len(opp_calls) + 1
                   /\ opp_calls'[Len(opp_calls')].op = "WaitConnection"
                   /\ opp_connection' = opp_calls'[Len(opp_calls')].connection
                   /\ opp_connection' # None ]_vars

\* C21 (amended): TSC_OBEX_MMI_iut_accept_connect_OPP issues WaitConnection
\* exactly when no connection is held, and stores the connection of a call
\* that returned, so that at most one of its calls has returned and every call
\* of its before that one raised; with a connection held it issues nothing
\* and leaves the connection unchanged.
\* TSC_OBEX_MMI_iut_accept_slc_connect_l2cap issues one WaitConnection on every
\* invocation and replaces the handle whenever the call returns.
C21_WaitConnectionOnlyWhenNoneHeld ==
    /\ [](\A k1, k2 \in WaitConnectionsBy(AcceptConnect) :
            (k1 < k2) => ~opp_calls[k1].ok)
    /\ [][ /\ opp_mmi' = AcceptConnect =>
                IF opp_connection # None
                THEN /\ opp_connection' = opp_connection
                     /\ opp_calls' = opp_calls
                     /\ ret' = "OK"
                ELSE /\ Len(opp_calls') = Len(opp_calls) + 1
                     /\ SubSeq(opp_calls', 1, Len(opp_calls)) = opp_calls
                     /\ opp_calls'[Len(opp_calls')].mmi = AcceptConnect
                     /\ opp_calls'[Len(opp_calls')].op = "WaitConnection"
                     /\ IF opp_calls'[Len(opp_calls')].ok
                        THEN /\ opp_connection' = opp_calls'[Len(opp_calls')].connection
                             /\ opp_connection' # None
                             /\ ret' = "OK"
                        ELSE /\ opp_connection' = None
                             /\ ret' = "RAISE"
           /\ opp_mmi' = AcceptSlcConnect =>
                /\ Len(opp_calls') = Len(opp_calls) + 1
                /\ SubSeq(opp_calls', 1, Len(opp_calls)) = opp_calls
                /\ opp_calls'[Len(opp_calls')].mmi = AcceptSlcConnect
                /\ opp_calls'[Len(opp_calls')].op = "WaitConnection"
                /\ IF opp_calls'[Len(opp_calls')].ok
                   THEN /\ opp_connection' = opp_calls'[Len(opp_calls')].connection
                        /\ opp_connection' # None
                        /\ ret' = "OK"
                   ELSE /\ opp_connection' = opp_connection
                        /\ ret' = "RAISE" ]_vars

\* C21 witness: TSC_OBEX_MMI_iut_accept_connect_OPP took connection 1,
\* TSC_OBEX_MMI_iut_accept_slc_connect_l2cap replaced it with connection 2, and
\* TSC_OBEX_MMI_iut_accept_connect_OPP, invoked again, issued nothing and left
\* connection 2 in place
C21_Witness ==
    /\ opp_mmi = AcceptConnect
    /\ ret = "OK"
    /\ Len(opp_calls) = 2
    /\ opp_calls[1].mmi = AcceptConnect /\ opp_calls[1].ok /\ opp_calls[1].connection = 1
    /\ opp_calls[2].mmi = AcceptSlcConnect /\ opp_calls[2].ok /\ opp_calls[2].connection = 2
    /\ opp_connection = 2

====
